---- MODULE Spec2Model ----
(***************************************************************************)
(* Apna_cart (src/app.py): a Flask application over one SQLite database.   *)
(*                                                                         *)
(* The state is the committed content of the tables users, products, cart, *)
(* orders and order_items, the uncommitted image held by the one           *)
(* connection that owns SQLite's write lock, each client's session cookie, *)
(* and the position of each client's request inside its handler.           *)
(*                                                                         *)
(* Every request opens its own connection (get_db).  The sqlite3 module    *)
(* runs a SELECT outside any transaction and opens a transaction in front  *)
(* of the first INSERT / UPDATE / DELETE; the transaction ends at          *)
(* db.commit(), or is rolled back when the connection is closed without a  *)
(* commit (close_db after an exception, or the process dying).  Until the  *)
(* commit other connections read the last committed content and cannot     *)
(* write.  A handler that issues a single writing statement followed by    *)
(* db.commit() is one step; checkout, which issues three, is one step per  *)
(* statement.  Form fields are taken as they are after .strip(); the       *)
(* created_at timestamp of an order is left out.                           *)
(***************************************************************************)
EXTENDS Integers, Sequences, FiniteSets, TLC

\* ---------------------------------------------------------------- bounds
MaxQty == 2
MaxOrders == 2
MaxRequests == 7

\* The clients (browsers) that send requests, one request at a time each.
Clients == {1, 2}

\* Inputs of the requests.
Usernames == {"", "alice", "bob"}
Emails == {"", "a@x"}
Passwords == {"", "pw"}
ProductIdInputs == {1, 4, 9}
QuantityInputs == (0 - 1)..MaxQty

None == 0

\* ---------------------------------------------------------------- catalog
SeedProducts ==
    << [name |-> "Tomato-1 Kg", price |-> 200],
       [name |-> "Beans-1 Kg", price |-> 100],
       [name |-> "Brinjal-1 Kg", price |-> 60],
       [name |-> "Potato-1 Kg", price |-> 50],
       [name |-> "Cabbage-1 Kg", price |-> 40],
       [name |-> "Onion-1 Kg", price |-> 70],
       [name |-> "Cauliflower-1 Pc", price |-> 55],
       [name |-> "Lemon-6 Pc", price |-> 30] >>

VARIABLES users, products, cart, orders, order_items, tx, session, req, response, nreq

vars == <<users, products, cart, orders, order_items, tx, session, req, response, nreq>>

tables == <<users, products, cart, orders, order_items>>

\* ------------------------------------------------------- connection model
\* No connection holds the write lock.
NoTx == [owner |-> None, users |-> <<>>, cart |-> {}, orders |-> <<>>, order_items |-> <<>>]

\* The request of client c is not inside a handler.
Idle == [pc |-> "idle", row |-> FALSE, product_id |-> None, items |-> <<>>,
         total |-> 0, order_id |-> None]

\* get_db: the connection of client c's request may write when no other
\* connection holds the write lock.
get_db(c) == tx.owner \in {None, c}

\* The content client c's connection writes to: its open transaction, or a
\* transaction begun now on the committed content.
Begin(c) ==
    IF tx.owner = c THEN tx
    ELSE [owner |-> c, users |-> users, cart |-> cart, orders |-> orders,
          order_items |-> order_items]

\* db.commit(): the image t becomes the committed content and the lock is released.
Commit(t) ==
    /\ users' = t.users
    /\ cart' = t.cart
    /\ orders' = t.orders
    /\ order_items' = t.order_items
    /\ tx' = NoTx

\* A close_db that commits what the connection wrote so far.
close_db_commits(c) ==
    /\ IF tx.owner = c THEN Commit(tx) ELSE UNCHANGED <<users, cart, orders, order_items, tx>>
    /\ UNCHANGED products

\* close_db without a commit: what the connection wrote is rolled back.
close_db(c) ==
    /\ tx' = IF tx.owner = c THEN NoTx ELSE tx
    /\ UNCHANGED tables

\* A new request arrives (the number of requests served is bounded).
Accept == nreq < MaxRequests /\ nreq' = nreq + 1

current_user_id(c) == session[c]

\* The response the server sends to client c.
Reply(c, body) == [client |-> c, body |-> body]

\* ---------------------------------------------------------------- queries
HasProduct(p, pid) == pid \in 1..Len(p)

\* SELECT ... FROM cart WHERE user_id=?
UserCart(ct, uid) == {l \in ct : l.user_id = uid}

\* SELECT quantity FROM cart WHERE user_id=? AND product_id=?
CartRow(ct, uid, pid) == {l \in ct : l.user_id = uid /\ l.product_id = pid}

\* cart c JOIN products p ON p.id = c.product_id WHERE c.user_id=?
JoinedCart(ct, p, uid) == {l \in UserCart(ct, uid) : HasProduct(p, l.product_id)}

RECURSIVE RowsOf(_, _)
\* The rows of a joined cart as the sequence fetchall() returns, by product id.
RowsOf(lines, p) ==
    IF lines = {} THEN <<>>
    ELSE LET l == CHOOSE x \in lines : \A y \in lines : x.product_id <= y.product_id
         IN <<[product_id |-> l.product_id, price |-> p[l.product_id].price,
               quantity |-> l.quantity]>> \o RowsOf(lines \ {l}, p)

RECURSIVE SumItems(_)
\* sum(i["price"] * i["quantity"] for i in items)
SumItems(items) ==
    IF items = <<>> THEN 0
    ELSE Head(items).price * Head(items).quantity + SumItems(Tail(items))

\* ------------------------------------------------------------------ init
\* The state after init_db on a fresh database file.
Init ==
    /\ users = <<>>
    /\ products = SeedProducts
    /\ cart = {}
    /\ orders = <<>>
    /\ order_items = <<>>
    /\ tx = NoTx
    /\ session = [c \in Clients |-> None]
    /\ req = [c \in Clients |-> Idle]
    /\ response = Reply(None, "none")
    /\ nreq = 0

\* init_db run again at a restart: the tables exist, and the catalog is
\* seeded only when the products table is empty.
init_db ==
    /\ tx.owner = None
    /\ \A c \in Clients : req[c].pc = "idle"
    /\ products' = IF Len(products) = 0 THEN SeedProducts ELSE products
    /\ UNCHANGED <<users, cart, orders, order_items, tx, session, req, response, nreq>>

\* ------------------------------------------------------------------ auth
UsernameTaken(us, username) == \E i \in 1..Len(us) : us[i].username = username
EmailTaken(us, email) == \E i \in 1..Len(us) : us[i].email = email

\* POST /signup
signup(c, username, email, password) ==
    /\ req[c].pc = "idle"
    /\ Accept
    /\ IF username = "" \/ password = ""
       THEN /\ response' = Reply(c, "signup: required")
            /\ UNCHANGED <<tables, tx>>
       ELSE /\ get_db(c)
            /\ IF UsernameTaken(users, username) \/ EmailTaken(users, email)
               THEN /\ response' = Reply(c, "signup: exists")
                    /\ UNCHANGED <<tables, tx>>
               ELSE /\ response' = Reply(c, "signup: ok")
                    /\ Commit([Begin(c) EXCEPT !.users =
                           Append(users, [username |-> username, email |-> email,
                                          password |-> password])])
                    /\ UNCHANGED products
    /\ UNCHANGED <<session, req>>

\* POST /login
login(c, username, password) ==
    /\ req[c].pc = "idle"
    /\ Accept
    /\ LET found == {i \in 1..Len(users) :
                        users[i].username = username /\ users[i].password = password}
       IN IF found # {}
          THEN /\ session' = [session EXCEPT ![c] = CHOOSE i \in found : TRUE]
               /\ response' = Reply(c, "login: ok")
          ELSE /\ response' = Reply(c, "login: invalid")
               /\ UNCHANGED session
    /\ UNCHANGED <<tables, tx, req>>

\* GET /logout
logout(c) ==
    /\ req[c].pc = "idle"
    /\ Accept
    /\ session[c] # None
    /\ session' = [session EXCEPT ![c] = None]
    /\ response' = Reply(c, "logout")
    /\ UNCHANGED <<tables, tx, req>>

\* ------------------------------------------------------------------ cart
\* POST /cart/add/<product_id>, up to the SELECT of the existing line.
add_to_cart_select(c, product_id) ==
    /\ req[c].pc = "idle"
    /\ Accept
    /\ IF current_user_id(c) = None
       THEN /\ response' = Reply(c, "add_to_cart: 401")
            /\ UNCHANGED req
       ELSE LET row == CartRow(cart, current_user_id(c), product_id)
            IN /\ \A l \in row : l.quantity < MaxQty
               /\ req' = [req EXCEPT ![c] = [Idle EXCEPT !.pc = "add_write",
                                                    !.row = (row # {}),
                                                    !.product_id = product_id]]
               /\ UNCHANGED response
    /\ UNCHANGED <<tables, tx, session>>

\* UPDATE cart SET quantity = quantity + 1 WHERE user_id=? AND product_id=?
IncrementLine(ct, uid, pid) ==
    {IF l.user_id = uid /\ l.product_id = pid
     THEN [l EXCEPT !.quantity = l.quantity + 1] ELSE l : l \in ct}

\* INSERT INTO cart (user_id, product_id, quantity) VALUES (?, ?, 1)
InsertLine(ct, uid, pid) ==
    ct \cup {[user_id |-> uid, product_id |-> pid, quantity |-> 1]}

\* POST /cart/add/<product_id>, the UPDATE or INSERT and db.commit().  The
\* INSERT of a line that exists by now violates UNIQUE(user_id, product_id):
\* the IntegrityError is not caught and the request fails.
add_to_cart_write(c) ==
    /\ req[c].pc = "add_write"
    /\ get_db(c)
    /\ LET uid == current_user_id(c)
           pid == req[c].product_id
       IN IF req[c].row
          THEN /\ Commit([Begin(c) EXCEPT !.cart = IncrementLine(cart, uid, pid)])
               /\ response' = Reply(c, "add_to_cart: ok")
          ELSE IF CartRow(cart, uid, pid) # {}
               THEN /\ close_db(c)
                    /\ response' = Reply(c, "add_to_cart: IntegrityError")
               ELSE /\ Commit([Begin(c) EXCEPT !.cart = InsertLine(cart, uid, pid)])
                    /\ response' = Reply(c, "add_to_cart: ok")
    /\ req' = [req EXCEPT ![c] = Idle]
    /\ UNCHANGED <<products, session>>
    /\ UNCHANGED nreq

\* DELETE FROM cart WHERE user_id=? AND product_id=?
DeleteLine(ct, uid, pid) == ct \ CartRow(ct, uid, pid)

\* An UPDATE that adds the quantity to the line instead of setting it.
SetLineAdds(ct, uid, pid, qty) ==
    {IF l.user_id = uid /\ l.product_id = pid
     THEN [l EXCEPT !.quantity = l.quantity + qty] ELSE l : l \in ct}

\* UPDATE cart SET quantity=? WHERE user_id=? AND product_id=?
SetLine(ct, uid, pid, qty) ==
    {IF l.user_id = uid /\ l.product_id = pid
     THEN [l EXCEPT !.quantity = qty] ELSE l : l \in ct}

\* max(0, qty)
Clamp(qty) == IF qty < 0 THEN 0 ELSE qty

\* POST /cart/update/<product_id> with form field quantity
update_cart(c, product_id, quantity) ==
    /\ req[c].pc = "idle"
    /\ Accept
    /\ IF current_user_id(c) = None
       THEN /\ response' = Reply(c, "update_cart: 401")
            /\ UNCHANGED <<tables, tx>>
       ELSE LET qty == Clamp(quantity)
                uid == current_user_id(c)
            IN /\ get_db(c)
               /\ Commit([Begin(c) EXCEPT !.cart =
                      IF qty = 0 THEN DeleteLine(cart, uid, product_id)
                      ELSE SetLine(cart, uid, product_id, qty)])
               /\ response' = Reply(c, "update_cart: ok")
               /\ UNCHANGED products
    /\ UNCHANGED <<session, req>>

\* A DELETE FROM cart without its WHERE clause.
DeleteWholeCart(ct, uid) == {}

\* DELETE FROM cart WHERE user_id=?
DeleteUserCart(ct, uid) == ct \ UserCart(ct, uid)

\* POST /cart/clear
clear_cart(c) ==
    /\ req[c].pc = "idle"
    /\ Accept
    /\ IF current_user_id(c) = None
       THEN /\ response' = Reply(c, "clear_cart: 401")
            /\ UNCHANGED <<tables, tx>>
       ELSE /\ get_db(c)
            /\ Commit([Begin(c) EXCEPT !.cart = DeleteUserCart(cart, current_user_id(c))])
            /\ response' = Reply(c, "clear_cart: ok")
            /\ UNCHANGED products
    /\ UNCHANGED <<session, req>>

\* -------------------------------------------------------------- checkout
\* A checkout without the test for an empty cart.
EmptyCartNever(items) == FALSE

\* if not items
EmptyCart(items) == items = <<>>

\* POST /checkout, up to the test for an empty cart.
checkout_select(c) ==
    /\ req[c].pc = "idle"
    /\ Accept
    /\ IF current_user_id(c) = None
       THEN /\ response' = Reply(c, "checkout: login")
            /\ UNCHANGED req
       ELSE LET items == RowsOf(JoinedCart(cart, products, current_user_id(c)), products)
            IN IF EmptyCart(items)
               THEN /\ response' = Reply(c, "checkout: cart is empty")
                    /\ UNCHANGED req
               ELSE /\ UNCHANGED response
                    /\ req' = [req EXCEPT ![c] = [Idle EXCEPT !.pc = "insert_order",
                                                         !.items = items,
                                                         !.total = SumItems(items)]]
    /\ UNCHANGED <<tables, tx, session>>

\* An INSERT that overwrites the order the user already has.
InsertOrderReplacing(os, uid, total) ==
    IF \E i \in 1..Len(os) : os[i].user_id = uid
    THEN [i \in 1..Len(os) |-> IF os[i].user_id = uid
                               THEN [user_id |-> uid, total_amount |-> total] ELSE os[i]]
    ELSE Append(os, [user_id |-> uid, total_amount |-> total])

\* INSERT INTO orders (user_id, total_amount) VALUES (?, ?)
InsertOrder(os, uid, total) == Append(os, [user_id |-> uid, total_amount |-> total])

\* A checkout that loads the cart again under the write lock and gives up
\* when it finds the cart cleared.
checkout_insert_order_rechecks(c) ==
    /\ req[c].pc = "insert_order"
    /\ get_db(c)
    /\ Len(orders) < MaxOrders
    /\ IF JoinedCart(cart, products, current_user_id(c)) = {}
       THEN /\ req' = [req EXCEPT ![c] = Idle]
            /\ response' = Reply(c, "checkout: cart is empty")
            /\ UNCHANGED tx
       ELSE /\ tx' = [Begin(c) EXCEPT !.orders =
                         Append(orders, [user_id |-> current_user_id(c),
                                         total_amount |-> req[c].total])]
            /\ req' = [req EXCEPT ![c].pc = "insert_items",
                                  ![c].order_id = Len(orders) + 1]
            /\ UNCHANGED response
    /\ UNCHANGED <<tables, session, nreq>>

\* The INSERT of the order header opens the transaction; order_id = cur.lastrowid.
checkout_insert_order(c) ==
    /\ req[c].pc = "insert_order"
    /\ get_db(c)
    /\ Len(orders) < MaxOrders
    /\ LET t == Begin(c)
           os == InsertOrder(t.orders, current_user_id(c), req[c].total)
       IN /\ tx' = [t EXCEPT !.orders = os]
          /\ req' = [req EXCEPT ![c].pc = "insert_items", ![c].order_id = Len(os)]
    /\ UNCHANGED <<tables, session, response>>
    /\ UNCHANGED nreq

RECURSIVE InsertOrderItems(_, _, _)
\* executemany INSERT INTO order_items (order_id, product_id, quantity, price_each)
InsertOrderItems(ois, order_id, items) ==
    IF items = <<>> THEN ois
    ELSE InsertOrderItems(
             Append(ois, [order_id |-> order_id, product_id |-> Head(items).product_id,
                          quantity |-> Head(items).quantity,
                          price_each |-> Head(items).price]),
             order_id, Tail(items))

checkout_insert_items(c) ==
    /\ req[c].pc = "insert_items"
    /\ tx' = [tx EXCEPT !.order_items =
                  InsertOrderItems(tx.order_items, req[c].order_id, req[c].items)]
    /\ req' = [req EXCEPT ![c].pc = "delete_cart"]
    /\ UNCHANGED <<tables, session, response>>
    /\ UNCHANGED nreq

checkout_delete_cart(c) ==
    /\ req[c].pc = "delete_cart"
    /\ tx' = [tx EXCEPT !.cart = DeleteUserCart(tx.cart, current_user_id(c))]
    /\ req' = [req EXCEPT ![c].pc = "commit"]
    /\ UNCHANGED <<tables, session, response>>
    /\ UNCHANGED nreq

\* db.commit() and the redirect to thank_you with the order id.
checkout_commit(c) ==
    /\ req[c].pc = "commit"
    /\ Commit(tx)
    /\ response' = Reply(c, "checkout: thank_you")
    /\ req' = [req EXCEPT ![c] = Idle]
    /\ UNCHANGED <<products, session>>
    /\ UNCHANGED nreq

\* ---------------------------------------------------------------- failure
\* A request dies between two statements of its transaction (an exception,
\* the worker killed): the connection is closed without a commit.
request_fails(c) ==
    /\ req[c].pc \in {"insert_items", "delete_cart", "commit"}
    /\ close_db(c)
    /\ req' = [req EXCEPT ![c] = Idle]
    /\ response' = Reply(c, "checkout: failed")
    /\ UNCHANGED session
    /\ UNCHANGED nreq

\* A writing statement finds the write lock held by another connection until
\* the busy timeout: sqlite3.OperationalError, database is locked.
database_locked(c) ==
    /\ req[c].pc \in {"idle", "add_write", "insert_order"}
    /\ IF req[c].pc = "idle" THEN Accept ELSE UNCHANGED nreq
    /\ tx.owner \notin {None, c}
    /\ req' = [req EXCEPT ![c] = Idle]
    /\ response' = Reply(c, "database is locked")
    /\ UNCHANGED <<tables, tx, session>>

Next ==
    \/ init_db
    \/ \E c \in Clients, u \in Usernames, e \in Emails, p \in Passwords : signup(c, u, e, p)
    \/ \E c \in Clients, u \in Usernames, p \in Passwords : login(c, u, p)
    \/ \E c \in Clients : logout(c)
    \/ \E c \in Clients, pid \in ProductIdInputs : add_to_cart_select(c, pid)
    \/ \E c \in Clients : add_to_cart_write(c)
    \/ \E c \in Clients, pid \in ProductIdInputs, q \in QuantityInputs : update_cart(c, pid, q)
    \/ \E c \in Clients : clear_cart(c)
    \/ \E c \in Clients : checkout_select(c)
    \/ \E c \in Clients : checkout_insert_order(c)
    \/ \E c \in Clients : checkout_insert_items(c)
    \/ \E c \in Clients : checkout_delete_cart(c)
    \/ \E c \in Clients : checkout_commit(c)
    \/ \E c \in Clients : request_fails(c)
    \/ \E c \in Clients : database_locked(c)

Spec == Init /\ [][Next]_vars

\* ================================================================ claims
\* The rows executemany writes for the items of order order_id.
OrderItemRows(items, order_id) == InsertOrderItems(<<>>, order_id, items)

\* The order items of order order_id in the table ois.
ItemsOfOrder(ois, order_id) == SelectSeq(ois, LAMBDA r : r.order_id = order_id)

\* The steps of client c's checkout after it has loaded the cart.
CheckoutPcs == {"insert_order", "insert_items", "delete_cart", "commit"}

\* items holds one row per cart line of lines: the same product and quantity,
\* at the product's catalog price.
ItemsAreLines(items, lines) ==
    /\ Len(items) = Cardinality(lines)
    /\ \A l \in lines : \E i \in 1..Len(items) :
           /\ items[i].product_id = l.product_id
           /\ items[i].quantity = l.quantity
           /\ HasProduct(products, l.product_id)
           /\ items[i].price = products[l.product_id].price

\* The committed tables gain the whole order of client c's checkout: its
\* header, one order item per loaded row, and the user's cart cleared.
WholeOrder(c) ==
    /\ req[c].items # <<>>
    /\ orders' = Append(orders, [user_id |-> session[c],
                                 total_amount |-> SumItems(req[c].items)])
    /\ order_items' = order_items \o OrderItemRows(req[c].items, Len(orders) + 1)
    /\ UserCart(cart', session[c]) = {}

\* C1: a checkout that goes on after loading the cart has loaded exactly the
\* user's cart lines (one row per line, same product and quantity, the catalog
\* price), its total is the sum of price * quantity over them, and its commit
\* creates exactly one order of the user with those items and that total.
C1_OrderIsTheCart ==
    [][\A c \in Clients :
          /\ (req'[c].pc = "insert_order" /\ checkout_select(c))
                => /\ ItemsAreLines(req'[c].items, UserCart(cart, session[c]))
                   /\ req'[c].total = SumItems(req'[c].items)
          /\ (req[c].pc = "commit" /\ checkout_commit(c)) => WholeOrder(c)]_vars

\* C2 as the spec states it: update_cart is an upsert; after it the line is
\* absent when the clamped quantity is 0 and is the one line with exactly that
\* quantity otherwise, whether or not a line existed.
C2_Upsert ==
    [][\A c \in Clients, pid \in ProductIdInputs, q \in QuantityInputs :
          (response' = Reply(c, "update_cart: ok") /\ update_cart(c, pid, q))
             => CartRow(cart', session[c], pid) =
                   IF Clamp(q) = 0 THEN {}
                   ELSE {[user_id |-> session[c], product_id |-> pid,
                          quantity |-> Clamp(q)]}]_vars

\* C2 amended: update_cart sets an existing line; after it the line is absent
\* when the clamped quantity is 0 or when no line existed, and otherwise is
\* the one line with exactly that quantity; every other line is unchanged.
C2_SetsExistingLine ==
    [][\A c \in Clients, pid \in ProductIdInputs, q \in QuantityInputs :
          (response' = Reply(c, "update_cart: ok") /\ update_cart(c, pid, q))
             => /\ CartRow(cart', session[c], pid) =
                      IF Clamp(q) = 0 \/ CartRow(cart, session[c], pid) = {} THEN {}
                      ELSE {[user_id |-> session[c], product_id |-> pid,
                             quantity |-> Clamp(q)]}
                /\ cart' \ CartRow(cart', session[c], pid)
                      = cart \ CartRow(cart, session[c], pid)]_vars

\* An update_cart has just set a line that existed to the quantity MaxQty.
C2_Witness ==
    /\ response.body = "update_cart: ok"
    /\ \E l \in UserCart(cart, session[response.client]) : l.quantity = MaxQty

\* Every committed order has its order items, and they add up to its total.
OrdersComplete ==
    \A i \in 1..Len(orders) :
        LET its == ItemsOfOrder(order_items, i)
        IN /\ its # <<>>
           /\ orders[i].total_amount =
                 SumItems([k \in 1..Len(its) |-> [price |-> its[k].price_each,
                                                  quantity |-> its[k].quantity]])

\* C3: the committed content, which is what other requests read and what
\* survives a failure, changes all-or-nothing under checkout: a step of a
\* checkout that changes it, and any step that changes orders or order_items,
\* adds the order header, all of its order items and clears the user's cart
\* at once; a checkout that fails leaves it as it was; no committed order
\* lacks its order items.
C3_AllOrNothing ==
    /\ [][/\ \A c \in Clients :
               (req[c].pc \in CheckoutPcs /\ req'[c].pc # req[c].pc /\ tables' # tables)
                   => (req[c].pc = "commit" /\ WholeOrder(c))
          /\ (orders' # orders \/ order_items' # order_items)
                   => \E c \in Clients : req[c].pc = "commit" /\ WholeOrder(c)
          /\ \A c \in Clients : request_fails(c) => tables' = tables]_vars
    /\ []OrdersComplete

\* A checkout has failed inside its transaction: no order, no order item, and
\* the user's cart still holds its lines.
C3_Witness ==
    /\ response.body = "checkout: failed"
    /\ orders = <<>>
    /\ order_items = <<>>
    /\ JoinedCart(cart, products, session[response.client]) # {}

\* C4: orders and order items are append-only: no step changes or removes a
\* committed order or order item, and an order item that is added belongs to
\* an order added by the same step.
C4_AppendOnly ==
    [][/\ Len(orders') >= Len(orders)
       /\ SubSeq(orders', 1, Len(orders)) = orders
       /\ Len(order_items') >= Len(order_items)
       /\ SubSeq(order_items', 1, Len(order_items)) = order_items
       /\ \A k \in (Len(order_items) + 1)..Len(order_items') :
              order_items'[k].order_id > Len(orders)]_vars

\* A user who has an order has checked out a second time.
C4_Witness ==
    /\ Len(orders) = 2
    /\ orders[1].user_id = orders[2].user_id
    /\ response.body = "checkout: thank_you"

\* C5: a checkout by a logged-in user whose cart has no lines answers that
\* the cart is empty, ends there, and leaves every table and the lock alone.
C5_EmptyCart ==
    [][\A c \in Clients :
          (session[c] # None /\ UserCart(cart, session[c]) = {} /\ checkout_select(c))
             => /\ response' = Reply(c, "checkout: cart is empty")
                /\ req'[c].pc = "idle"
                /\ tables' = tables
                /\ tx' = tx]_vars

\* A user who has an order and an empty cart was told that the cart is empty.
C5_Witness ==
    /\ response.body = "checkout: cart is empty"
    /\ UserCart(cart, session[response.client]) = {}
    /\ \E i \in 1..Len(orders) : orders[i].user_id = session[response.client]

\* C6: the commit of a checkout leaves the user without cart lines and every
\* other user's cart lines as they were.
C6_CartCleared ==
    [][\A c \in Clients :
          (req[c].pc = "commit" /\ checkout_commit(c))
             => /\ UserCart(cart', session[c]) = {}
                /\ cart' \ UserCart(cart', session[c]) = cart \ UserCart(cart, session[c])]_vars

\* A checkout has just succeeded while another user has cart lines.
C6_Witness ==
    /\ response.body = "checkout: thank_you"
    /\ UserCart(cart, session[response.client]) = {}
    /\ cart # {}

\* C7: a signup with a username and a password creates exactly one user when
\* neither the username nor a supplied email is taken (no email supplied: the
\* username alone decides), and otherwise answers that the identity exists
\* and leaves users unchanged.
C7_Signup ==
    [][\A c \in Clients, u \in Usernames, e \in Emails, p \in Passwords :
          (u # "" /\ p # "" /\ response'.client = c /\ signup(c, u, e, p))
             => IF UsernameTaken(users, u) \/ (e # "" /\ EmailTaken(users, e))
                THEN users' = users /\ response' = Reply(c, "signup: exists")
                ELSE /\ users' = Append(users, [username |-> u, email |-> e, password |-> p])
                     /\ response' = Reply(c, "signup: ok")]_vars

\* C8: nothing serializes the checkouts of a user: a checkout that has loaded
\* the cart and moves on writes the order header for the rows it loaded,
\* whatever has been committed since (the only other ways out are the lock
\* timeout and a failure), and its commit creates its own order from them.
C8_NotSerialized ==
    [][\A c \in Clients :
          /\ (req[c].pc = "insert_order" /\ req'[c].pc # "insert_order"
                 /\ response' # Reply(c, "database is locked"))
                => /\ req'[c] = [req[c] EXCEPT !.pc = "insert_items",
                                               !.order_id = Len(orders) + 1]
                   /\ tx'.owner = c
                   /\ tx'.orders = Append(orders, [user_id |-> session[c],
                                                   total_amount |-> SumItems(req[c].items)])
          /\ (req[c].pc = "commit" /\ req'[c].pc = "idle"
                 /\ response' # Reply(c, "checkout: failed"))
                => /\ Len(orders') = Len(orders) + 1
                   /\ ItemsOfOrder(order_items', Len(orders'))
                         = OrderItemRows(req[c].items, Len(orders'))]_vars

\* One cart has become two orders: within seven requests (a signup, two
\* logins, two requests that bring one line to quantity 2, two checkouts) a
\* user has two orders, each with the same single item of quantity 2.
C8_Witness ==
    /\ nreq <= 7
    /\ Len(orders) = 2
    /\ orders[1] = orders[2]
    /\ Len(order_items) = 2
    /\ order_items[1].quantity = 2
    /\ order_items[2] = [order_items[1] EXCEPT !.order_id = 2]

\* C9, for the lines of catalog products: every cart line that the commit of
\* a checkout deletes is an order item, with that product and quantity, of
\* the order the checkout creates.
C9_NothingDiscarded ==
    [][\A c \in Clients :
          (req[c].pc = "commit" /\ checkout_commit(c))
             => \A l \in JoinedCart(cart, products, session[c]) :
                    \E k \in 1..Len(req[c].items) :
                        /\ req[c].items[k].product_id = l.product_id
                        /\ req[c].items[k].quantity = l.quantity]_vars

\* C10: every cart line refers to a product of the catalog.
C10_CartLinesInCatalog == \A l \in cart : HasProduct(products, l.product_id)
====
